---- MODULE Spec2Model ----
(***************************************************************************)
(* Model of the feed package of lexora-feed: the single-feed fetcher       *)
(* FetchFeed, and the fan-out aggregator FetchAllFeeds with its            *)
(* goroutine-per-feed concurrency, WaitGroup barrier, mutex-guarded        *)
(* accumulation, per-feed child contexts and final sort.                   *)
(***************************************************************************)
EXTENDS Integers, Sequences, FiniteSets, TLC

(***************************************************************************)
(* Bounds of the model.                                                    *)
(***************************************************************************)
\* longest input feed list handed to FetchAllFeeds
MaxFeeds == 2
\* largest maxPostsPerFeed argument tried (the smallest tried is -1)
MaxCap == 3
\* the feeds file is followed up to this many stored feeds
MaxStored == 3
\* AddFeed calls in progress at the same time
MaxWriters == 2

(***************************************************************************)
(* Values.                                                                 *)
(***************************************************************************)
\* the nil error
NoErr == "nil"
\* ctx.Err() of an expired context
DeadlineExceeded == "context deadline exceeded"
\* ctx.Err() of a cancelled context
Canceled == "context canceled"

\* time.Time: an instant and a location; time.Time{} is instant 0 in UTC
Time(t, loc) == [t |-> t, loc |-> loc]
ZeroTime == Time(0, "UTC")
\* time.Time.UTC: same instant, location UTC
UTC(x) == [x EXCEPT !.loc = "UTC"]
\* time.Time.After compares instants only
After(a, b) == a.t > b.t

\* a *time.Time is the empty sequence (nil) or a one-element sequence
Nil == <<>>
Ptr(x) == <<x>>

\* gofeed.Item, the fields FetchFeed reads
Item(title, link, pub, upd) ==
    [Title |-> title, Link |-> link, PublishedParsed |-> pub, UpdatedParsed |-> upd]

\* type Post struct
Post(feedName, title, url, publishedAt) ==
    [FeedName |-> feedName, Title |-> title, URL |-> url, PublishedAt |-> publishedAt]

\* type Feed struct
Feed(name, url) == [Name |-> name, URL |-> url]

\* type FeedError struct
FeedError(feedName, url, err) == [FeedName |-> feedName, URL |-> url, Err |-> err]

(***************************************************************************)
(* The network: the answers the server behind each URL may give.  An       *)
(* answer of kind "feed" is a parseable document; the other kinds make the *)
(* parser return err.  A slow server sleeps past every per-feed timeout.   *)
(***************************************************************************)
Document(title, items) == [kind |-> "feed", err |-> NoErr, Title |-> title, Items |-> items]
Failure(kind, err) == [kind |-> kind, err |-> err, Title |-> "", Items |-> << >>]

DocA ==
    Document("Doc A",
             << Item("a1", "l/a1", Ptr(Time(3, "+02")), Nil),
                Item("a2", "l/a2", Ptr(Time(2, "UTC")), Ptr(Time(3, "UTC"))),
                Item("a3", "l/a3", Nil, Ptr(Time(1, "+02"))) >>)
DocB ==
    Document("",
             << Item("b1", "l/b1", Ptr(Time(2, "UTC")), Nil),
                Item("b2", "l/b2", Nil, Nil),
                Item("b3", "l/b3", Ptr(Time(2, "UTC")), Nil) >>)
DocSlow == Document("Doc S", << Item("s1", "l/s1", Ptr(Time(4, "UTC")), Nil) >>)
\* a feed without items
DocEmpty == Document("Doc E", << >>)
Http500 == Failure("status", "http error: 500 Internal Server Error")
NotAFeed == Failure("html", "Failed to detect feed type")
Unreachable == Failure("down", "dial tcp: connection refused")

Answers(url) ==
    CASE url = "u/a" -> {DocA}
      [] url = "U/A" -> {DocA}
      [] url = "u/b" -> {DocB}
      [] url = "u/empty" -> {DocEmpty}
      [] url = "u/slow" -> {DocSlow}
      [] OTHER -> {Http500, NotAFeed, Unreachable}

Slow(url) == url = "u/slow"

\* the configured feeds an input list is drawn from
FeedPool == { Feed("A", "u/a"), Feed("B", "u/b"), Feed("S", "u/slow"), Feed("X", "u/bad") }

(***************************************************************************)
(* State.                                                                  *)
(***************************************************************************)
VARIABLES
    feeds,            \* argument: the input feed list
    maxPostsPerFeed,  \* argument
    parentDone,       \* argument ctx: TRUE once the caller cancelled it
    pc,               \* FetchAllFeeds: "loop", "wait", "sort", "returned"
    next,             \* the range loop's position in feeds
    wg,               \* sync.WaitGroup counter
    mu,               \* sync.Mutex: 0 when free, else the goroutine holding it
    allPosts,         \* []Post
    errs,             \* []FeedError
    gpc,              \* each goroutine's position
    fetchCtx,         \* each goroutine's child context: its own error
    ret,              \* each goroutine's locals posts, err
    file,             \* what is at feedsPath
    lastOp,           \* the last call of the store or the PUT handler, with its outcome
    get,              \* the request to GET /rss: its position, its window, its reply
    adders            \* the AddFeed calls in progress: position, argument, locals

fetchVars == <<feeds, maxPostsPerFeed, parentDone, pc, next, wg, mu, allPosts, errs,
               gpc, fetchCtx, ret>>
storeVars == <<file, lastOp, get, adders>>
vars == <<fetchVars, storeVars>>

N == Len(feeds)
G == 1..N

(***************************************************************************)
(* FetchFeed.                                                              *)
(***************************************************************************)
\* parser.ParseURLWithContext: the context's error when the context is done,
\* the server's error when the answer is no feed, else the parsed document
ParseURLWithContext(answer, ctxErr) ==
    IF ctxErr # NoErr
    THEN [err |-> ctxErr, Title |-> "", Items |-> << >>]
    ELSE [err |-> answer.err, Title |-> answer.Title, Items |-> answer.Items]

\* mutant: the last-updated date is preferred
PublishedUpdatedFirst(item) ==
    IF item.UpdatedParsed # Nil THEN UTC(item.UpdatedParsed[1])
    ELSE IF item.PublishedParsed # Nil THEN UTC(item.PublishedParsed[1])
    ELSE ZeroTime

\* mutant: an item without dates gets the current time
PublishedNow(item) ==
    IF item.PublishedParsed # Nil THEN UTC(item.PublishedParsed[1])
    ELSE IF item.UpdatedParsed # Nil THEN UTC(item.UpdatedParsed[1])
    ELSE Time(9, "UTC")

\* the publish date, else the last-updated date, else time.Time{}
Published(item) ==
    IF item.PublishedParsed # Nil THEN UTC(item.PublishedParsed[1])
    ELSE IF item.UpdatedParsed # Nil THEN UTC(item.UpdatedParsed[1])
    ELSE ZeroTime

\* mutant: a cap of zero or less means no cap
CapReachedNoCap(i, maxPosts) == maxPosts > 0 /\ i >= maxPosts

\* mutant: the cap test is off by one
CapReachedOffByOne(i, maxPosts) == i > maxPosts

\* the loop's exit test, on the 0-based index i
CapReached(i, maxPosts) == i >= maxPosts

\* mutant: each post is put in front of the ones before it
RECURSIVE ProjectItemsPrepend(_, _, _, _, _)
ProjectItemsPrepend(title, items, k, maxPosts, posts) ==
    IF k > Len(items) THEN posts
    ELSE IF k - 1 >= maxPosts THEN posts
    ELSE ProjectItemsPrepend(title, items, k + 1, maxPosts,
                             <<Post(title, items[k].Title, items[k].Link,
                                    Published(items[k]))>> \o posts)

\* for i, item := range f.Items { ... }: k is the 1-based position of the
\* item the loop is at, so its Go index is k - 1
RECURSIVE ProjectItems(_, _, _, _, _)
ProjectItems(title, items, k, maxPosts, posts) ==
    IF k > Len(items) THEN posts
    ELSE IF CapReached(k - 1, maxPosts) THEN posts
    ELSE ProjectItems(title, items, k + 1, maxPosts,
                      Append(posts, Post(title, items[k].Title, items[k].Link,
                                         Published(items[k]))))

\* mutant: the parser's error is swallowed
FetchResultSwallow(f, maxPosts) ==
    [posts |-> ProjectItems(f.Title, f.Items, 1, maxPosts, << >>), err |-> NoErr]

\* what FetchFeed returns after the parser returned f
FetchResult(f, maxPosts) ==
    IF f.err # NoErr
    THEN [posts |-> << >>, err |-> f.err]
    ELSE [posts |-> ProjectItems(f.Title, f.Items, 1, maxPosts, << >>), err |-> NoErr]

FetchFeed(ctxErr, answer, maxPosts) ==
    FetchResult(ParseURLWithContext(answer, ctxErr), maxPosts)

(***************************************************************************)
(* FetchAllFeeds: helpers.                                                 *)
(***************************************************************************)
\* mutant: one context with one timer is shared by all the goroutines
ChildErrShared(own, parentCancelled) ==
    IF own # NoErr THEN own
    ELSE IF parentCancelled THEN Canceled
    ELSE IF \E k \in G : fetchCtx[k] = DeadlineExceeded THEN DeadlineExceeded
    ELSE NoErr

\* mutant: the child context is derived from context.Background()
ChildErrDetached(own, parentCancelled) == own

\* the Err() of the child context of context.WithTimeout(ctx, timeout): its
\* own error once its timer fired or its cancel ran, else the parent's
ChildErr(own, parentCancelled) ==
    IF own # NoErr THEN own
    ELSE IF parentCancelled THEN Canceled
    ELSE NoErr

\* the timer of goroutine i's child context fires
TimerFires(ctxs, i) == [ctxs EXCEPT ![i] = DeadlineExceeded]

\* defer cancel()
CancelChild(own) == IF own = NoErr THEN Canceled ELSE own

\* mutant: the two string fields are swapped
NewFeedErrorSwapped(fd, err) == FeedError(fd.URL, fd.Name, err)

\* FeedError{FeedName: fd.Name, URL: fd.URL, Err: err}
NewFeedError(fd, err) == FeedError(fd.Name, fd.URL, err)

\* mutant: only the first error is kept
AppendErrFirstOnly(es, fd, err) == IF es = << >> THEN << NewFeedError(fd, err) >> ELSE es

\* mutant: the new error is put in front
AppendErrFront(es, fd, err) == << NewFeedError(fd, err) >> \o es

\* mutant: the error list is overwritten, not appended to
AppendErrOverwrite(es, fd, err) == << NewFeedError(fd, err) >>

\* errs = append(errs, FeedError{...})
AppendErr(es, fd, err) == Append(es, NewFeedError(fd, err))

\* mutant: the loop renames a copy of each post
RelabelCopy(posts, fd) == posts

\* for i := range posts { posts[i].FeedName = fd.Name }
Relabel(posts, fd) == [k \in 1..Len(posts) |-> [posts[k] EXCEPT !.FeedName = fd.Name]]

\* mutant: the posts recorded before are overwritten
AppendPostsReplace(all, posts) == posts

\* allPosts = append(allPosts, posts...)
AppendPosts(all, posts) == all \o posts

\* mutant: the barrier waits for a first completion, which an empty list never has
WaitReadyAfterOne(counter) == counter = 0 /\ \E i \in G : gpc[i] = "done"

\* mutant: the barrier opens with one goroutine still running
WaitReadyEarly(counter) == counter <= 1

\* wg.Wait() returns when the counter is zero
WaitReady(counter) == counter = 0

\* mutant: the comparison is reversed
LessAscending(a, b) == After(b.PublishedAt, a.PublishedAt)

\* the less function handed to sort.Slice
Less(a, b) == After(a.PublishedAt, b.PublishedAt)

\* sort.Slice is not stable: it may leave any arrangement of the slice in
\* which no element is less than an element before it
RECURSIVE SortFrom(_, _)
SortFrom(posts, rest) ==
    IF rest = {} THEN { << >> }
    ELSE UNION { { <<posts[i]>> \o t : t \in SortFrom(posts, rest \ {i}) } :
                 i \in { j \in rest : \A r \in rest : ~Less(posts[r], posts[j]) } }

SortSlice(posts) == SortFrom(posts, 1..Len(posts))

(***************************************************************************)
(* The feed store: the feeds file and LoadFeeds, SaveFeeds, AddFeed.       *)
(***************************************************************************)
ErrDuplicateFeed == "feed URL already exists"
ErrRead == "read: permission denied"
ErrUnmarshal == "yaml: unmarshal errors"
ErrMkdir == "mkdir: permission denied"
ErrOpen == "open: permission denied"
ErrWrite == "write: no space left on device"

\* what is at the path of the feeds file
Absent == [kind |-> "absent", Feeds |-> << >>]
\* a file of zero bytes
Empty == [kind |-> "empty", Feeds |-> << >>]
\* bytes that are not a YAML document of the struct feedsFile
Corrupt == [kind |-> "corrupt", Feeds |-> << >>]

\* yaml.Marshal(&feedsFile{Feeds: fs}): the document "feeds:" with one
\* name/url entry per feed, in order
Marshal(fs) == [kind |-> "yaml", Feeds |-> fs]

\* yaml.Unmarshal(data, &ff)
Unmarshal(f) ==
    IF f.kind = "yaml"
    THEN [feeds |-> f.Feeds, err |-> NoErr]
    ELSE [feeds |-> << >>, err |-> ErrUnmarshal]

\* what can go wrong on the disk during one call; at most one fault per call
IO == {"ok", "read fails", "mkdir fails", "open fails", "write fails"}

LoadFeeds(f, io) ==
    IF io = "read fails" THEN [feeds |-> << >>, err |-> ErrRead]
    ELSE IF f.kind = "absent" THEN [feeds |-> << >>, err |-> NoErr]
    ELSE IF f.kind = "empty" THEN [feeds |-> << >>, err |-> NoErr]
    ELSE Unmarshal(f)

\* os.WriteFile truncates the file when it opens it, so a write that fails
\* leaves a file of zero bytes
SaveFeeds(f, fs, io) ==
    IF io = "mkdir fails" THEN [file |-> f, err |-> ErrMkdir]
    ELSE IF io = "open fails" THEN [file |-> f, err |-> ErrOpen]
    ELSE IF io = "write fails" THEN [file |-> Empty, err |-> ErrWrite]
    ELSE [file |-> Marshal(fs), err |-> NoErr]

\* "u/a" and "U/A" are the one pair of URLs of the model that differ in case only
Fold(url) == IF url = "U/A" THEN "u/a" ELSE url

\* mutant: the URLs are compared without regard to case
HasURLFold(fs, url) == \E k \in DOMAIN fs : Fold(fs[k].URL) = Fold(url)

\* mutant: nothing is a duplicate
HasURLNever(fs, url) == FALSE

\* for _, f := range existing { if f.URL == feed.URL
HasURL(fs, url) == \E k \in DOMAIN fs : fs[k].URL = url

AddFeed(f, feed, io) ==
    LET existing == LoadFeeds(f, io)
    IN  IF existing.err # NoErr THEN [file |-> f, err |-> existing.err]
        ELSE IF HasURL(existing.feeds, feed.URL) THEN [file |-> f, err |-> ErrDuplicateFeed]
        ELSE SaveFeeds(f, Append(existing.feeds, feed), io)

(***************************************************************************)
(* ValidateFeed and the handler of PUT /rss.                               *)
(***************************************************************************)
\* mutant: a feed without items is no feed
ValidateFeedNeedsItem(ctxErr, answer) ==
    LET r == FetchFeed(ctxErr, answer, 1)
    IN  IF r.err # NoErr THEN r.err
        ELSE IF r.posts = << >> THEN "feed has no items"
        ELSE NoErr

\* mutant: a context that is done does not fail the validation
ValidateFeedNoCtx(ctxErr, answer) == FetchFeed(NoErr, answer, 1).err

\* _, err := FetchFeed(ctx, url, 1); return err
ValidateFeed(ctxErr, answer) == FetchFeed(ctxErr, answer, 1).err

StatusCreated == 201
StatusBadRequest == 400
StatusMethodNotAllowed == 405
StatusConflict == 409
StatusUnprocessableEntity == 422
StatusInternalServerError == 500

\* a request: its method and what json.Decode makes of its body
Request(method, json, name, url) ==
    [method |-> method, json |-> json, name |-> name, url |-> url]

\* mutant: a failed validation is logged only
RejectsNever(verr) == FALSE

\* if err := feed.ValidateFeed(ctx, req.URL); err != nil
Rejects(verr) == verr # NoErr

\* the handler's answer: status, the feeds file afterwards, the calls it made
\* to the feed package, and what they returned
Reply(status, f, calls, verr, err) ==
    [status |-> status, file |-> f, calls |-> calls, verr |-> verr, err |-> err]

HandlePutRSS(r, ctxErr, answer, f, io) ==
    LET verr == ValidateFeed(ctxErr, answer)
        add == AddFeed(f, Feed(r.name, r.url), io)
    IN  IF r.method # "PUT" THEN Reply(StatusMethodNotAllowed, f, << >>, NoErr, NoErr)
        ELSE IF ~r.json THEN Reply(StatusBadRequest, f, << >>, NoErr, NoErr)
        ELSE IF r.name = "" \/ r.url = "" THEN Reply(StatusBadRequest, f, << >>, NoErr, NoErr)
        ELSE IF Rejects(verr)
             THEN Reply(StatusUnprocessableEntity, f, << "ValidateFeed" >>, verr, NoErr)
        ELSE IF add.err = ErrDuplicateFeed
             THEN Reply(StatusConflict, add.file, << "ValidateFeed", "AddFeed" >>, verr, add.err)
        ELSE IF add.err # NoErr
             THEN Reply(StatusInternalServerError, add.file,
                        << "ValidateFeed", "AddFeed" >>, verr, add.err)
        ELSE Reply(StatusCreated, add.file, << "ValidateFeed", "AddFeed" >>, verr, NoErr)

\* the record of a call: the inputs it was given and what came of it
Op(op, r, feed, ctxErr, answer, io, before, status, calls, verr, err) ==
    [op |-> op, r |-> r, feed |-> feed, ctxErr |-> ctxErr, answer |-> answer, io |-> io,
     before |-> before, status |-> status, calls |-> calls, verr |-> verr, err |-> err]

NoRequest == Request("", FALSE, "", "")
NoAnswer == Failure("none", NoErr)
NoOp == Op("none", NoRequest, Feed("", ""), NoErr, NoAnswer, "ok", Absent, 0, << >>, NoErr, NoErr)

(***************************************************************************)
(* The handler of GET /rss: parseDateRange, the warning, the range filter. *)
(***************************************************************************)
\* Instants are counted in half days from time.Time{}, so that a day has a
\* start and a later hour.
IsZero(x) == x.t = 0
Before(a, b) == a.t < b.t

\* time.Parse(time.RFC3339, s) on the parameter values of the model
ParseRFC3339(s) ==
    CASE s = "0001-01-01T00:00:00Z" -> [time |-> Time(0, "UTC"), err |-> NoErr]
      [] s = "0001-01-02T00:00:00Z" -> [time |-> Time(2, "UTC"), err |-> NoErr]
      [] s = "0001-01-02T14:00:00+02:00" -> [time |-> Time(3, "+02"), err |-> NoErr]
      [] OTHER -> [time |-> ZeroTime, err |-> "parsing time: cannot parse"]

\* time.Now(): the afternoon of a day long after the items of the model
Now == Time(801, "+02")

\* time.Date(now.Year(), now.Month(), now.Day(), 0, 0, 0, 0, time.UTC)
StartOfDay(x) == Time(x.t - (x.t % 2), "UTC")

\* AddDate, in days; a month is taken as 30 days and a year as 365
AddDays(x, days) == Time(x.t + 2 * days, x.loc)

\* the range words and how far back each one reaches
RangeDays ==
    ("today" :> 0) @@ ("last_week" :> 7) @@ ("last_month" :> 30)
        @@ ("last_3_months" :> 90) @@ ("last_6_months" :> 180) @@ ("last_year" :> 365)

parseDateRange(rangeParam, fromParam, toParam, defaultRange) ==
    LET f == ParseRFC3339(fromParam)
        t == ParseRFC3339(toParam)
        r == IF rangeParam = "" THEN defaultRange ELSE rangeParam
        startOfToday == StartOfDay(UTC(Now))
        Fail(msg) == [from |-> ZeroTime, to |-> ZeroTime, err |-> msg]
    IN  IF fromParam # "" \/ toParam # ""
        THEN IF fromParam # "" /\ f.err # NoErr THEN Fail("invalid 'from' parameter")
             ELSE IF toParam # "" /\ t.err # NoErr THEN Fail("invalid 'to' parameter")
             ELSE [from |-> IF fromParam # "" THEN f.time ELSE ZeroTime,
                   to |-> IF toParam # "" THEN t.time ELSE ZeroTime,
                   err |-> NoErr]
        ELSE IF r \in DOMAIN RangeDays
             THEN [from |-> AddDays(startOfToday, 0 - RangeDays[r]), to |-> ZeroTime,
                   err |-> NoErr]
             ELSE Fail("invalid range")

\* mutant: a post at a bound is dropped
KeepsExclusive(p, from, to) ==
    /\ ~(~IsZero(from) /\ ~After(p.PublishedAt, from))
    /\ ~(~IsZero(to) /\ ~Before(p.PublishedAt, to))

\* the two continue statements of the filter loop
Keeps(p, from, to) ==
    /\ ~(~IsZero(from) /\ Before(p.PublishedAt, from))
    /\ ~(~IsZero(to) /\ After(p.PublishedAt, to))

\* for _, p := range posts { ...; filtered = append(filtered, p) }
FilterPosts(posts, from, to) ==
    LET Kept(p) == Keeps(p, from, to)
    IN  SelectSeq(posts, Kept)

\* mutant: the warning is raised for an empty feed list too
AllFeedsFailedOrNone(fs, es) == Len(es) = Len(fs)

\* mutant: the warning is raised when any feed failed
AllFeedsFailedAny(fs, es) == Len(es) > 0

\* len(feedErrs) == len(feeds) && len(feeds) > 0
AllFeedsFailed(fs, es) == Len(es) = Len(fs) /\ Len(fs) > 0

StatusOK == 200

\* a request to GET /rss: its method and its query parameters
Query(method, range, from, to) ==
    [method |-> method, range |-> range, from |-> from, to |-> to]

\* cfg.DefaultRange
DefaultRange == "last_month"

\* the handler's state: where it is, the window it parsed, what it replied
Get(at, q, from, to, status, warn, body) ==
    [pc |-> at, q |-> q, from |-> from, to |-> to, status |-> status, warn |-> warn,
     body |-> body]

GetIdle == Get("idle", Query("", "", "", ""), ZeroTime, ZeroTime, 0, "", << >>)

\* the reply that ends the handler before any feed is fetched
GetEarly(q, status) == Get("replied", q, ZeroTime, ZeroTime, status, "", << >>)

\* the reply after FetchAllFeeds returned posts and feedErrs
GetResponse(g, fs, posts, feedErrs) ==
    Get("replied", g.q, g.from, g.to, StatusOK,
        IF AllFeedsFailed(fs, feedErrs) THEN "all-feeds-failed" ELSE "",
        FilterPosts(posts, g.from, g.to))

(***************************************************************************)
(* Initial state.                                                          *)
(***************************************************************************)
\* feed lists of at most n entries over the pool
FeedLists(n) == UNION { [1..k -> FeedPool] : k \in 0..n }

Init ==
    /\ feeds \in FeedLists(MaxFeeds)
    /\ maxPostsPerFeed \in -1..MaxCap
    /\ parentDone = FALSE
    /\ pc = "loop"
    /\ next = 1
    /\ wg = 0
    /\ mu = 0
    /\ allPosts = << >>
    /\ errs = << >>
    /\ gpc = [i \in G |-> "idle"]
    /\ fetchCtx = [i \in G |-> "none"]
    /\ ret = [i \in G |-> [posts |-> << >>, err |-> NoErr]]
    /\ file = Absent
    /\ lastOp = NoOp
    /\ get = GetIdle
    /\ adders = << >>

(***************************************************************************)
(* FetchAllFeeds: the calling goroutine.                                   *)
(***************************************************************************)
\* mutant: a goroutine is started when the one before it has finished
SpawnAfterPrevious ==
    /\ pc = "loop"
    /\ next <= N
    /\ IF next = 1 THEN TRUE ELSE gpc[next - 1] = "done"
    /\ wg' = wg + 1
    /\ gpc' = [gpc EXCEPT ![next] = "start"]
    /\ next' = next + 1
    /\ UNCHANGED <<storeVars, feeds, maxPostsPerFeed, parentDone, pc, mu, allPosts, errs,
                   fetchCtx, ret>>

\* wg.Add(1); go func(fd Feed) {...}(f)
Spawn ==
    /\ pc = "loop"
    /\ next <= N
    /\ wg' = wg + 1
    /\ gpc' = [gpc EXCEPT ![next] = "start"]
    /\ next' = next + 1
    /\ UNCHANGED <<storeVars, feeds, maxPostsPerFeed, parentDone, pc, mu, allPosts, errs,
                   fetchCtx, ret>>

\* the range loop is over
EndLoop ==
    /\ pc = "loop"
    /\ next > N
    /\ pc' = "wait"
    /\ UNCHANGED <<storeVars, feeds, maxPostsPerFeed, parentDone, next, wg, mu, allPosts,
                   errs, gpc, fetchCtx, ret>>

\* wg.Wait()
Wait ==
    /\ pc = "wait"
    /\ WaitReady(wg)
    /\ pc' = "sort"
    /\ UNCHANGED <<storeVars, feeds, maxPostsPerFeed, parentDone, next, wg, mu, allPosts,
                   errs, gpc, fetchCtx, ret>>

\* sort.Slice(allPosts, ...); return allPosts, errs
SortAndReturn ==
    /\ pc = "sort"
    /\ allPosts' \in SortSlice(allPosts)
    /\ pc' = "returned"
    /\ UNCHANGED <<storeVars, feeds, maxPostsPerFeed, parentDone, next, wg, mu, errs, gpc,
                   fetchCtx, ret>>

(***************************************************************************)
(* FetchAllFeeds: the goroutine of feeds[i].                               *)
(***************************************************************************)
\* mutant: the mutex is taken before FetchFeed is called
BeginLocked(i) ==
    /\ gpc[i] = "start"
    /\ mu = 0
    /\ mu' = i
    /\ fetchCtx' = [fetchCtx EXCEPT ![i] = NoErr]
    /\ gpc' = [gpc EXCEPT ![i] = "fetching"]
    /\ UNCHANGED <<storeVars, feeds, maxPostsPerFeed, parentDone, pc, next, wg, allPosts,
                   errs, ret>>

\* fetchCtx, cancel := context.WithTimeout(ctx, timeout); FetchFeed is called
Begin(i) ==
    /\ gpc[i] = "start"
    /\ fetchCtx' = [fetchCtx EXCEPT ![i] = NoErr]
    /\ gpc' = [gpc EXCEPT ![i] = "fetching"]
    /\ UNCHANGED <<storeVars, feeds, maxPostsPerFeed, parentDone, pc, next, wg, mu, allPosts,
                   errs, ret>>

\* timeout elapses while FetchFeed is in progress
Timer(i) ==
    /\ gpc[i] = "fetching"
    /\ ChildErr(fetchCtx[i], parentDone) = NoErr
    /\ fetchCtx' = TimerFires(fetchCtx, i)
    /\ UNCHANGED <<storeVars, feeds, maxPostsPerFeed, parentDone, pc, next, wg, mu, allPosts,
                   errs, gpc, ret>>

\* mutant: a fetch that failed is tried again
FetchReturnRetry(i) ==
    /\ gpc[i] = "fetching"
    /\ LET ctxErr == ChildErr(fetchCtx[i], parentDone)
       IN  /\ ctxErr # NoErr \/ ~Slow(feeds[i].URL)
           /\ \E answer \in Answers(feeds[i].URL) :
                /\ ret' = [ret EXCEPT ![i] = FetchFeed(ctxErr, answer, maxPostsPerFeed)]
                /\ gpc' = [gpc EXCEPT ![i] = IF ret'[i].err # NoErr /\ ctxErr = NoErr
                                              THEN "start" ELSE "fetched"]
    /\ UNCHANGED <<storeVars, feeds, maxPostsPerFeed, parentDone, pc, next, wg, mu, allPosts,
                   errs, fetchCtx>>

\* posts, err := FetchFeed(fetchCtx, fd.URL, maxPostsPerFeed) returns; a slow
\* server answers only after the context is done
FetchReturn(i) ==
    /\ gpc[i] = "fetching"
    /\ LET ctxErr == ChildErr(fetchCtx[i], parentDone)
       IN  /\ ctxErr # NoErr \/ ~Slow(feeds[i].URL)
           /\ \E answer \in Answers(feeds[i].URL) :
                ret' = [ret EXCEPT ![i] = FetchFeed(ctxErr, answer, maxPostsPerFeed)]
    /\ gpc' = [gpc EXCEPT ![i] = "fetched"]
    /\ UNCHANGED <<storeVars, feeds, maxPostsPerFeed, parentDone, pc, next, wg, mu, allPosts,
                   errs, fetchCtx>>

\* mutant: the bookkeeping section is entered without waiting for the mutex
LockNoWait(i) ==
    /\ gpc[i] = "fetched"
    /\ mu' = i
    /\ gpc' = [gpc EXCEPT ![i] = "locked"]
    /\ UNCHANGED <<storeVars, feeds, maxPostsPerFeed, parentDone, pc, next, wg, allPosts, errs,
                   fetchCtx, ret>>

\* mu.Lock()
Lock(i) ==
    /\ gpc[i] = "fetched"
    /\ mu = 0
    /\ mu' = i
    /\ gpc' = [gpc EXCEPT ![i] = "locked"]
    /\ UNCHANGED <<storeVars, feeds, maxPostsPerFeed, parentDone, pc, next, wg, allPosts, errs,
                   fetchCtx, ret>>

\* mutant: the error path returns without releasing the mutex
RecordKeepsLockOnError(i) ==
    /\ gpc[i] = "locked"
    /\ IF ret[i].err # NoErr
       THEN /\ errs' = AppendErr(errs, feeds[i], ret[i].err)
            /\ UNCHANGED <<allPosts, ret, mu>>
       ELSE /\ ret' = [ret EXCEPT ![i].posts = Relabel(ret[i].posts, feeds[i])]
            /\ allPosts' = AppendPosts(allPosts, ret'[i].posts)
            /\ mu' = 0
            /\ UNCHANGED errs
    /\ fetchCtx' = [fetchCtx EXCEPT ![i] = CancelChild(fetchCtx[i])]
    /\ wg' = wg - 1
    /\ gpc' = [gpc EXCEPT ![i] = "done"]
    /\ UNCHANGED <<storeVars, feeds, maxPostsPerFeed, parentDone, pc, next>>

\* the bookkeeping step, one FeedError or the relabelled posts, and the
\* deferred calls its return runs: mu.Unlock(), cancel(), wg.Done()
Record(i) ==
    /\ gpc[i] = "locked"
    /\ IF ret[i].err # NoErr
       THEN /\ errs' = AppendErr(errs, feeds[i], ret[i].err)
            /\ UNCHANGED <<allPosts, ret>>
       ELSE /\ ret' = [ret EXCEPT ![i].posts = Relabel(ret[i].posts, feeds[i])]
            /\ allPosts' = AppendPosts(allPosts, ret'[i].posts)
            /\ UNCHANGED errs
    /\ mu' = 0
    /\ fetchCtx' = [fetchCtx EXCEPT ![i] = CancelChild(fetchCtx[i])]
    /\ wg' = wg - 1
    /\ gpc' = [gpc EXCEPT ![i] = "done"]
    /\ UNCHANGED <<storeVars, feeds, maxPostsPerFeed, parentDone, pc, next>>

(***************************************************************************)
(* The caller of FetchAllFeeds.                                            *)
(***************************************************************************)
\* the caller cancels the context it passed
CancelParent ==
    /\ ~parentDone
    /\ pc # "returned"
    /\ parentDone' = TRUE
    /\ UNCHANGED <<storeVars, feeds, maxPostsPerFeed, pc, next, wg, mu, allPosts, errs, gpc,
                   fetchCtx, ret>>

Next ==
    \/ Spawn
    \/ EndLoop
    \/ Wait
    \/ SortAndReturn
    \/ CancelParent
    \/ \E i \in G : Begin(i)
    \/ \E i \in G : Timer(i)
    \/ \E i \in G : FetchReturn(i)
    \/ \E i \in G : Lock(i)
    \/ \E i \in G : Record(i)

Spec == Init /\ [][Next]_vars

\* the steps of the program itself: the Go scheduler runs every runnable
\* goroutine and the runtime fires every timer, so the program does not stop
\* while one of its steps is possible; the caller need never cancel
ProgramStep ==
    \/ Spawn
    \/ EndLoop
    \/ Wait
    \/ SortAndReturn
    \/ \E i \in G : Begin(i)
    \/ \E i \in G : Timer(i)
    \/ \E i \in G : FetchReturn(i)
    \/ \E i \in G : Lock(i)
    \/ \E i \in G : Record(i)

FairSpec == Spec /\ WF_vars(ProgramStep)

\* the calls followed to their end: one feed that answers, one that hangs
\* until its timeout, one that fails, and a cap of one post
LivePool == { Feed("A", "u/a"), Feed("S", "u/slow"), Feed("X", "u/bad") }

InitLive ==
    /\ Init
    /\ maxPostsPerFeed = 1
    /\ \A i \in DOMAIN feeds : feeds[i] \in LivePool

LiveSpec == InitLive /\ [][Next]_vars /\ WF_vars(ProgramStep)

\* the calls that take every item the documents hold
InitFullCap ==
    /\ Init
    /\ maxPostsPerFeed = MaxCap

FullCapSpec == InitFullCap /\ [][Next]_vars

(***************************************************************************)
(* The feed store and the handler of PUT /rss, one call after the other.   *)
(***************************************************************************)
\* the requests sent to PUT /rss
Requests ==
    { Request("GET", TRUE, "P", "u/a"), Request("PUT", FALSE, "", "") }
        \cup { Request("PUT", TRUE, n, u) :
                 n \in {"", "P"}, u \in {"", "u/a", "U/A", "u/empty", "u/bad"} }

\* the request's context when the fetch of the validation returns: not done,
\* timed out after FetchTimeoutSec, or cancelled with the request
CtxErrs == {NoErr, DeadlineExceeded, Canceled}

\* the feeds given to AddFeed directly
AddPool == { Feed(n, u) : n \in {"P", "Q"}, u \in {"u/a", "U/A", "u/b"} }

\* the feeds file before the first call
InitFiles == { Absent, Empty, Corrupt, Marshal(<< >>), Marshal(<< Feed("P", "u/a") >>) }

InitStore ==
    /\ file \in InitFiles
    /\ lastOp = NoOp
    /\ get = GetIdle
    /\ adders = << >>
    /\ feeds = << >>
    /\ maxPostsPerFeed = 0
    /\ parentDone = FALSE
    /\ pc = "idle"
    /\ next = 1
    /\ wg = 0
    /\ mu = 0
    /\ allPosts = << >>
    /\ errs = << >>
    /\ gpc = << >>
    /\ fetchCtx = << >>
    /\ ret = << >>

\* the request gets as far as the validation of its URL
ReachesValidation(r) == r.method = "PUT" /\ r.json /\ r.name # "" /\ r.url # ""

\* what the handler meets while it serves r: the context's state when the
\* fetch returns, the server's answer, the disk's fault.  What the handler
\* does not get to consult is left at its idle value: no answer arrives
\* once the context is done, and the disk is touched after a successful
\* validation only
Environment(r) ==
    IF ~ReachesValidation(r)
    THEN { <<NoErr, NoAnswer, "ok">> }
    ELSE { <<c, NoAnswer, "ok">> : c \in CtxErrs \ {NoErr} }
            \cup { <<NoErr, a, "ok">> : a \in { x \in Answers(r.url) : x.err # NoErr } }
            \cup { <<NoErr, a, io>> : a \in { x \in Answers(r.url) : x.err = NoErr }, io \in IO }

\* one request to PUT /rss, from its arrival to the reply
PutRSS ==
    \E r \in Requests :
        \E env \in Environment(r) :
            LET h == HandlePutRSS(r, env[1], env[2], file, env[3])
            IN  /\ Len(h.file.Feeds) <= MaxStored
                /\ file' = h.file
                /\ lastOp' = Op("put", r, Feed(r.name, r.url), env[1], env[2], env[3], file,
                                h.status, h.calls, h.verr, h.err)
                /\ UNCHANGED <<fetchVars, get, adders>>

\* one call of AddFeed by another caller than the handler
AddFeedCall ==
    \E fd \in AddPool, io \in IO :
        LET a == AddFeed(file, fd, io)
        IN  /\ Len(a.file.Feeds) <= MaxStored
            /\ file' = a.file
            /\ lastOp' = Op("add", NoRequest, fd, NoErr, NoAnswer, io, file,
                            0, << "AddFeed" >>, NoErr, a.err)
            /\ UNCHANGED <<fetchVars, get, adders>>

NextStore ==
    \/ PutRSS
    \/ AddFeedCall

SpecStore == InitStore /\ [][NextStore]_vars

(***************************************************************************)
(* One request to GET /rss: the handler loads the feeds, runs              *)
(* FetchAllFeeds with the request's context, and replies.                  *)
(***************************************************************************)
\* the requests sent to GET /rss
Queries ==
    { Query("PUT", "", "", ""),
      Query("GET", "", "", ""),
      Query("GET", "today", "", ""),
      Query("GET", "last_decade", "", ""),
      Query("GET", "", "yesterday", ""),
      Query("GET", "", "", "tomorrow"),
      Query("GET", "last_decade", "0001-01-02T00:00:00Z", ""),
      Query("GET", "", "0001-01-01T00:00:00Z", ""),
      Query("GET", "", "", "0001-01-02T00:00:00Z"),
      Query("GET", "", "", "0001-01-01T00:00:00Z"),
      Query("GET", "", "0001-01-02T00:00:00Z", "0001-01-02T14:00:00+02:00"),
      Query("GET", "", "0001-01-02T14:00:00+02:00", "0001-01-02T00:00:00Z") }

\* the feeds file when the request arrives
GetFiles ==
    { Absent, Corrupt, Marshal(<< >>),
      Marshal(<< Feed("A", "u/a") >>),
      Marshal(<< Feed("X", "u/bad") >>),
      Marshal(<< Feed("A", "u/a"), Feed("B", "u/b") >>),
      Marshal(<< Feed("S", "u/slow"), Feed("X", "u/bad") >>),
      Marshal(<< Feed("X", "u/bad"), Feed("X", "u/bad") >>) }

InitGet ==
    /\ file \in GetFiles
    /\ lastOp = NoOp
    /\ get = GetIdle
    /\ adders = << >>
    /\ feeds = << >>
    /\ maxPostsPerFeed = MaxCap
    /\ parentDone = FALSE
    /\ pc = "idle"
    /\ next = 1
    /\ wg = 0
    /\ mu = 0
    /\ allPosts = << >>
    /\ errs = << >>
    /\ gpc = << >>
    /\ fetchCtx = << >>
    /\ ret = << >>

\* the handler up to its call of FetchAllFeeds: the method, the window, the
\* feeds file; the disk is consulted only when the window parsed
GetStart ==
    /\ get.pc = "idle"
    /\ \E q \in Queries, io \in {"ok", "read fails"} :
        LET window == parseDateRange(q.range, q.from, q.to, DefaultRange)
            loaded == LoadFeeds(file, io)
            early == IF q.method # "GET" THEN StatusMethodNotAllowed
                     ELSE IF window.err # NoErr THEN StatusBadRequest
                     ELSE IF loaded.err # NoErr THEN StatusInternalServerError
                     ELSE 0
        IN  /\ io = "ok" \/ (q.method = "GET" /\ window.err = NoErr)
            /\ IF early # 0
               THEN /\ get' = GetEarly(q, early)
                    /\ UNCHANGED fetchVars
               ELSE /\ get' = Get("fetching", q, window.from, window.to, 0, "", << >>)
                    /\ feeds' = loaded.feeds
                    /\ pc' = "loop"
                    /\ gpc' = [i \in 1..Len(loaded.feeds) |-> "idle"]
                    /\ fetchCtx' = [i \in 1..Len(loaded.feeds) |-> "none"]
                    /\ ret' = [i \in 1..Len(loaded.feeds) |-> [posts |-> << >>, err |-> NoErr]]
                    /\ UNCHANGED <<maxPostsPerFeed, parentDone, next, wg, mu, allPosts, errs>>
    /\ UNCHANGED <<file, lastOp, adders>>

\* the handler after FetchAllFeeds returned: the warning, the filter, the body
GetReply ==
    /\ get.pc = "fetching"
    /\ pc = "returned"
    /\ get' = GetResponse(get, feeds, allPosts, errs)
    /\ UNCHANGED <<fetchVars, file, lastOp, adders>>

NextGet ==
    \/ GetStart
    \/ GetReply
    \/ Next

SpecGet == InitGet /\ [][NextGet]_vars

(***************************************************************************)
(* AddFeed calls running at the same time, as the handlers of two requests *)
(* do: each call reads the feeds file, looks for its URL in what it read,  *)
(* and writes the file anew; os.WriteFile truncates the file when it opens *)
(* it and writes the bytes afterwards.                                     *)
(***************************************************************************)
\* the feeds given to the concurrent calls
RacePool == { Feed("P", "u/a"), Feed("Q", "u/a"), Feed("P", "u/b") }

\* a call of AddFeed: where it is, its argument, its local existing, its result
Adder(at, feed, existing, err) ==
    [pc |-> at, feed |-> feed, existing |-> existing, err |-> err]

InitRace ==
    /\ file \in { Absent, Marshal(<< Feed("P", "u/a") >>) }
    /\ adders \in [1..MaxWriters -> { Adder("load", fd, << >>, NoErr) : fd \in RacePool }]
    /\ lastOp = NoOp
    /\ get = GetIdle
    /\ feeds = << >>
    /\ maxPostsPerFeed = 0
    /\ parentDone = FALSE
    /\ pc = "idle"
    /\ next = 1
    /\ wg = 0
    /\ mu = 0
    /\ allPosts = << >>
    /\ errs = << >>
    /\ gpc = << >>
    /\ fetchCtx = << >>
    /\ ret = << >>

\* existing, err := LoadFeeds(path), the duplicate loop, and the append
AddLoad(w) ==
    /\ adders[w].pc = "load"
    /\ LET existing == LoadFeeds(file, "ok")
       IN  adders' = [adders EXCEPT ![w] =
                IF existing.err # NoErr
                THEN Adder("done", @.feed, << >>, existing.err)
                ELSE IF HasURL(existing.feeds, @.feed.URL)
                THEN Adder("done", @.feed, existing.feeds, ErrDuplicateFeed)
                ELSE Adder("open", @.feed, Append(existing.feeds, @.feed), NoErr)]
    /\ UNCHANGED <<fetchVars, file, lastOp, get>>

\* SaveFeeds: os.WriteFile opens the file, which truncates it
AddOpen(w) ==
    /\ adders[w].pc = "open"
    /\ file' = Empty
    /\ adders' = [adders EXCEPT ![w].pc = "write"]
    /\ UNCHANGED <<fetchVars, lastOp, get>>

\* SaveFeeds: os.WriteFile writes the document; AddFeed returns nil
AddWrite(w) ==
    /\ adders[w].pc = "write"
    /\ file' = SaveFeeds(file, adders[w].existing, "ok").file
    /\ adders' = [adders EXCEPT ![w].pc = "done"]
    /\ UNCHANGED <<fetchVars, lastOp, get>>

NextRace ==
    \/ \E w \in DOMAIN adders : AddLoad(w)
    \/ \E w \in DOMAIN adders : AddOpen(w)
    \/ \E w \in DOMAIN adders : AddWrite(w)

SpecRace == InitRace /\ [][NextRace]_vars

(***************************************************************************)
(* Vocabulary of the properties.                                           *)
(***************************************************************************)
Returned == pc = "returned"

\* goroutine i's call of FetchFeed has returned
Fetched(i) == gpc[i] \in {"fetched", "locked", "done"}

Failed == { i \in G : ret[i].err # NoErr }
Succeeded == { i \in G : ret[i].err = NoErr }

\* the sum of Len(ret[i].posts) over the goroutines in S
RECURSIVE PostsOf(_)
PostsOf(S) ==
    IF S = {} THEN 0
    ELSE LET i == CHOOSE x \in S : TRUE
         IN  Len(ret[i].posts) + PostsOf(S \ {i})

\* the links of the items the server behind url may serve
LinksAt(url) == UNION { { a.Items[k].Link : k \in DOMAIN a.Items } : a \in Answers(url) }

(***************************************************************************)
(* C1.  When FetchAllFeeds returns, every input feed has resolved to       *)
(* exactly one outcome: a failed fetch left exactly one FeedError and no   *)
(* post, a successful one left its posts and no FeedError; so the number   *)
(* of successful feeds plus len(errs) is the number of input feeds.        *)
(***************************************************************************)
C1_ExactlyOneOutcome ==
    Returned =>
        /\ Cardinality(Succeeded) + Len(errs) = N
        /\ \A f \in FeedPool :
             /\ Cardinality({ k \in DOMAIN errs :
                                errs[k].FeedName = f.Name /\ errs[k].URL = f.URL })
                   = Cardinality({ i \in Failed : feeds[i] = f })
             /\ Cardinality({ k \in DOMAIN allPosts : allPosts[k].FeedName = f.Name })
                   = PostsOf({ i \in Succeeded : feeds[i] = f })

\* a list of two feeds returned one FeedError and the posts of the other
C1_Witness ==
    /\ Returned
    /\ N = 2
    /\ Len(errs) = 1
    /\ Len(allPosts) > 0
    /\ \E i \in G : ret[i].err = DeadlineExceeded

(***************************************************************************)
(* C2.  FetchAllFeeds is past wg.Wait() only when every goroutine it       *)
(* launched has finished and recorded its outcome.                         *)
(***************************************************************************)
C2_AllCompleteBarrier ==
    pc \in {"sort", "returned"} => \A i \in G : gpc[i] = "done"

\* the barrier holds the caller while one feed is recorded and its sibling
\* is still fetching
C2_Witness ==
    /\ pc = "wait"
    /\ \E i, j \in G : gpc[i] = "done" /\ gpc[j] = "fetching"

(***************************************************************************)
(* C3.  The returned post list is sorted by PublishedAt descending.        *)
(***************************************************************************)
C3_SortedDescending ==
    Returned =>
        \A a, b \in DOMAIN allPosts :
            a < b => allPosts[a].PublishedAt.t >= allPosts[b].PublishedAt.t

\* posts of two feeds interleave in the result, the second feed of the input first
C3_Witness ==
    /\ Returned
    /\ Len(allPosts) = 4
    /\ feeds[1].Name = "B"
    /\ allPosts[1].FeedName = "A"
    /\ allPosts[2].FeedName = "B"
    /\ allPosts[3].FeedName = "A"
    /\ allPosts[4].FeedName = "B"

(***************************************************************************)
(* C4.  A failing feed does not abort the others: the result holds every   *)
(* post of every successful feed, and for each failing feed one FeedError  *)
(* with that feed's name and URL and the error FetchFeed returned.         *)
(***************************************************************************)
C4_PartialFailure ==
    Returned =>
        \A i \in G :
            IF ret[i].err # NoErr
            THEN Cardinality({ k \in DOMAIN errs :
                                errs[k] = [FeedName |-> feeds[i].Name, URL |-> feeds[i].URL,
                                           Err |-> ret[i].err] })
                   = Cardinality({ j \in G : feeds[j] = feeds[i] /\ ret[j].err = ret[i].err })
            ELSE \A k \in DOMAIN ret[i].posts :
                    \E m \in DOMAIN allPosts : allPosts[m] = ret[i].posts[k]

\* one feed serves a document, the other answers 500: posts and one error
C4_Witness ==
    /\ Returned
    /\ N = 2
    /\ Len(allPosts) > 0
    /\ Len(errs) = 1
    /\ errs[1] = [FeedName |-> "X", URL |-> "u/bad", Err |-> Http500.err]

(***************************************************************************)
(* C5.  Every post of the result carries the configured name of the feed   *)
(* it was fetched from, not the title of the feed document.                *)
(***************************************************************************)
C5_ConfiguredName ==
    Returned =>
        \A k \in DOMAIN allPosts :
            \A f \in FeedPool :
                allPosts[k].URL \in LinksAt(f.URL) => allPosts[k].FeedName = f.Name

\* posts of a document titled "Doc A" and of one with an empty title
C5_Witness ==
    /\ Returned
    /\ \E k \in DOMAIN allPosts : allPosts[k].URL = "l/a1" /\ allPosts[k].FeedName = "A"
    /\ \E k \in DOMAIN allPosts : allPosts[k].URL = "l/b1" /\ allPosts[k].FeedName = "B"

(***************************************************************************)
(* C6.  Each fetch runs under its own deadline.  While the caller has not  *)
(* cancelled, a fetch whose own timer did not fire never ends with a       *)
(* context error, whatever its siblings' timers did: a feed that serves a  *)
(* document succeeds and its posts are in the result.  A fetch whose timer *)
(* fired is in the result as a FeedError.                                  *)
(***************************************************************************)
C6_IndependentTimeouts ==
    /\ \A j \in G :
         (Fetched(j) /\ ~parentDone /\ fetchCtx[j] # DeadlineExceeded) =>
            /\ ret[j].err \notin {DeadlineExceeded, Canceled}
            /\ feeds[j].URL \in {"u/a", "u/b"} => ret[j].err = NoErr
    /\ Returned =>
         \A i \in G :
            /\ fetchCtx[i] = DeadlineExceeded =>
                 \E k \in DOMAIN errs :
                    errs[k] = [FeedName |-> feeds[i].Name, URL |-> feeds[i].URL,
                               Err |-> DeadlineExceeded]
            /\ (~parentDone /\ fetchCtx[i] # DeadlineExceeded /\ maxPostsPerFeed > 0
                  /\ feeds[i].URL \in {"u/a", "u/b"}) =>
                 \E k \in DOMAIN allPosts : allPosts[k].FeedName = feeds[i].Name

\* the slow feed timed out, the fast one contributed its posts
C6_Witness ==
    /\ Returned
    /\ ~parentDone
    /\ N = 2
    /\ \E i, j \in G :
          /\ feeds[i].URL = "u/slow"
          /\ fetchCtx[i] = DeadlineExceeded
          /\ feeds[j].URL = "u/a"
          /\ fetchCtx[j] # DeadlineExceeded
          /\ \E k \in DOMAIN allPosts : allPosts[k].FeedName = "A"
    /\ Len(errs) = 1

(***************************************************************************)
(* C7.  Once the caller has cancelled its context, a fetch that is in      *)
(* flight can only end with a context error; and when FetchAllFeeds has    *)
(* returned no goroutine is left running and every child context has been  *)
(* released.                                                               *)
(***************************************************************************)
C7_ParentCancellation ==
    /\ [][\A i \in G :
            (parentDone /\ gpc[i] = "fetching" /\ gpc'[i] # "fetching") =>
                /\ ret'[i].err \in {Canceled, DeadlineExceeded}
                /\ ret'[i].posts = << >>]_vars
    /\ [](Returned => \A i \in G : gpc[i] = "done" /\ fetchCtx[i] \in {Canceled, DeadlineExceeded})

\* the caller cancelled while two fetches were in flight; both ended as errors
C7_Witness ==
    /\ Returned
    /\ parentDone
    /\ N = 2
    /\ Len(errs) = 2
    /\ \A k \in DOMAIN errs : errs[k].Err = Canceled
    /\ \E i \in G : feeds[i].URL = "u/a"

(***************************************************************************)
(* C8.  With a positive maxPostsPerFeed no feed contributes more than      *)
(* maxPostsPerFeed posts to the result (a feed listed n times, n times as  *)
(* many).  The total is not bounded by it: the witness is a result of      *)
(* N * maxPostsPerFeed posts.                                              *)
(***************************************************************************)
C8_PerFeedCap ==
    (Returned /\ maxPostsPerFeed > 0) =>
        \A f \in FeedPool :
            Cardinality({ k \in DOMAIN allPosts : allPosts[k].FeedName = f.Name })
                <= maxPostsPerFeed * Cardinality({ i \in G : feeds[i] = f })

\* two feeds of three items each, capped: 2 * maxPostsPerFeed posts in all
C8_Witness ==
    /\ Returned
    /\ N = 2
    /\ maxPostsPerFeed > 0
    /\ feeds[1] # feeds[2]
    /\ Len(allPosts) = 2 * maxPostsPerFeed
    /\ Len(allPosts) > maxPostsPerFeed

(***************************************************************************)
(* C9.  FetchFeed on a document of n items returns maxItems posts when     *)
(* n > maxItems > 0 and n posts when n <= maxItems, and post k is made     *)
(* from item k of the document.                                            *)
(***************************************************************************)
C9_FirstItemsInOrder ==
    \A i \in G :
        (gpc[i] = "fetched" /\ ret[i].err = NoErr) =>
            \A d \in Answers(feeds[i].URL) :
                LET n == Len(d.Items)
                    m == maxPostsPerFeed
                IN  /\ (m > 0 /\ n > m) => Len(ret[i].posts) = m
                    /\ (m > 0 /\ n <= m) => Len(ret[i].posts) = n
                    /\ Len(ret[i].posts) <= n
                    /\ \A k \in DOMAIN ret[i].posts :
                          /\ ret[i].posts[k].Title = d.Items[k].Title
                          /\ ret[i].posts[k].URL = d.Items[k].Link

\* three items, maxItems 2: the posts a1 and a2
C9_Witness ==
    \E i \in G :
        /\ gpc[i] = "fetched"
        /\ feeds[i].URL = "u/a"
        /\ maxPostsPerFeed = 2
        /\ Len(ret[i].posts) = 2
        /\ ret[i].posts[1].Title = "a1"
        /\ ret[i].posts[2].Title = "a2"

(***************************************************************************)
(* C10.  FetchFeed returns an error and no posts, or posts and no error:   *)
(* an error and no posts when the server is unreachable, answers an HTTP   *)
(* error status or a body that is no feed, and when the context is done    *)
(* (deadline or cancellation) as the fetch ends.                           *)
(***************************************************************************)
C10_ErrorOrPosts ==
    /\ [](\A i \in G :
            Fetched(i) =>
                /\ ret[i].err # NoErr => ret[i].posts = << >>
                /\ feeds[i].URL = "u/bad" =>
                      /\ ret[i].err \in {Http500.err, NotAFeed.err, Unreachable.err,
                                         DeadlineExceeded, Canceled}
                      /\ ret[i].posts = << >>
                /\ fetchCtx[i] = DeadlineExceeded =>
                      ret[i] = [posts |-> << >>, err |-> DeadlineExceeded])
    /\ [][\A i \in G :
            (gpc[i] = "fetching" /\ gpc'[i] = "fetched"
               /\ (parentDone \/ fetchCtx[i] # NoErr)) =>
                /\ ret'[i].err \in {DeadlineExceeded, Canceled}
                /\ ret'[i].posts = << >>]_vars

\* FetchFeed returned the error of a server that answered a page of HTML
C10_Witness ==
    \E i \in G :
        /\ gpc[i] = "fetched"
        /\ ret[i] = [posts |-> << >>, err |-> NotAFeed.err]

(***************************************************************************)
(* C11.  FetchFeed gives each post the item's publish date, else the       *)
(* item's last-updated date, both as the same instant in UTC, else the     *)
(* zero time.Time; never another value.                                    *)
(***************************************************************************)
C11_TimestampFallback ==
    \A i \in G :
        (Fetched(i) /\ ret[i].err = NoErr) =>
            \A d \in Answers(feeds[i].URL) :
                \A k \in DOMAIN ret[i].posts :
                    LET item == d.Items[k]
                        at == ret[i].posts[k].PublishedAt
                    IN  IF item.PublishedParsed # << >>
                        THEN at = [t |-> item.PublishedParsed[1].t, loc |-> "UTC"]
                        ELSE IF item.UpdatedParsed # << >>
                        THEN at = [t |-> item.UpdatedParsed[1].t, loc |-> "UTC"]
                        ELSE at = [t |-> 0, loc |-> "UTC"]

\* a2 has both dates, a3 (zone +02) only the last-updated one
C11_Witness ==
    \E i \in G :
        /\ gpc[i] = "fetched"
        /\ feeds[i].URL = "u/a"
        /\ Len(ret[i].posts) = 3
        /\ ret[i].posts[2].PublishedAt = [t |-> 2, loc |-> "UTC"]
        /\ ret[i].posts[3].PublishedAt = [t |-> 1, loc |-> "UTC"]

(***************************************************************************)
(* C12.  With maxPosts <= 0 FetchFeed returns no posts, and no error when  *)
(* the document was fetched and parsed.                                    *)
(***************************************************************************)
C12_NonPositiveCapTakesNone ==
    \A i \in G :
        (Fetched(i) /\ maxPostsPerFeed <= 0) =>
            /\ ret[i].posts = << >>
            /\ (feeds[i].URL \in {"u/a", "u/b"} /\ ~parentDone
                  /\ fetchCtx[i] # DeadlineExceeded) => ret[i].err = NoErr

\* a document of three items fetched with maxPosts = -1
C12_Witness ==
    \E i \in G :
        /\ gpc[i] = "fetched"
        /\ maxPostsPerFeed = -1
        /\ feeds[i].URL = "u/a"
        /\ ret[i] = [posts |-> << >>, err |-> NoErr]

NoDateLinks ==
    UNION { { a.Items[k].Link : k \in { n \in DOMAIN a.Items :
                                          /\ a.Items[n].PublishedParsed = << >>
                                          /\ a.Items[n].UpdatedParsed = << >> } } :
            a \in UNION { Answers(f.URL) : f \in FeedPool } }

C14_AbsentSortsLast ==
    Returned =>
        \A a, b \in DOMAIN allPosts :
            (a < b /\ allPosts[a].URL \in NoDateLinks) =>
                /\ allPosts[b].URL \in NoDateLinks
                /\ allPosts[a].PublishedAt.t = 0

\* the undated post of the first input feed ends behind the posts of the second
C14_Witness ==
    /\ Returned
    /\ N = 2
    /\ feeds[1].Name = "B"
    /\ feeds[2].Name = "A"
    /\ Len(allPosts) = 6
    /\ allPosts[6].URL = "l/b2"
    /\ allPosts[5].FeedName = "A"

(***************************************************************************)
(* C16.  When every feed of a non-empty list fails, FetchAllFeeds returns  *)
(* no posts and one error per feed.                                        *)
(***************************************************************************)
C16_AllFail ==
    (Returned /\ N > 0 /\ \A i \in G : ret[i].err # NoErr) =>
        /\ allPosts = << >>
        /\ Len(errs) = N
        /\ \A i \in G : \E k \in DOMAIN errs : errs[k].URL = feeds[i].URL

\* two feeds, both answered 500
C16_Witness ==
    /\ Returned
    /\ N = 2
    /\ allPosts = << >>
    /\ Len(errs) = 2
    /\ \A k \in DOMAIN errs : errs[k].Err = Http500.err

(***************************************************************************)
(* C17.  With an empty feed list FetchAllFeeds starts no goroutine, so no  *)
(* fetch, is never blocked, and returns no posts and no errors.            *)
(***************************************************************************)
C17_EmptyList ==
    N = 0 =>
        /\ allPosts = << >>
        /\ errs = << >>
        /\ wg = 0
        /\ DOMAIN gpc = {}
        /\ pc = "loop" => ENABLED EndLoop
        /\ pc = "wait" => ENABLED Wait
        /\ pc = "sort" => ENABLED SortAndReturn

\* the call with the empty list has returned
C17_Witness ==
    /\ Returned
    /\ N = 0
    /\ allPosts = << >>
    /\ errs = << >>

(***************************************************************************)
(* C15.  The error list is in the order in which the failing goroutines    *)
(* record their outcome, not in input order.                               *)
(***************************************************************************)
\* the place of feed i's FeedError in errs
ErrPos(i) == CHOOSE k \in DOMAIN errs : errs[k].URL = feeds[i].URL

\* completion read as the return of FetchFeed: when a's failing fetch has
\* returned while b's fetch is still in progress, a's FeedError precedes b's
\* in the returned list
C15_FetchCompletionOrder ==
    \A a, b \in 1..MaxFeeds :
        []((/\ a \in G
            /\ b \in G
            /\ feeds[a].URL # feeds[b].URL
            /\ gpc[a] = "fetched"
            /\ ret[a].err # NoErr
            /\ gpc[b] = "fetching")
           => []((/\ a \in G
                  /\ b \in G
                  /\ Returned
                  /\ ret[a].err # NoErr
                  /\ ret[b].err # NoErr)
                 => ErrPos(a) < ErrPos(b)))

\* completion read as the bookkeeping step under the mutex: each failing
\* goroutine's bookkeeping step puts its FeedError
\* behind the errors recorded before it, a successful one leaves errs alone,
\* and errs holds the errors of the goroutines that have recorded, only
C15_RecordOrder ==
    /\ [][\A i \in G :
            (gpc[i] = "locked" /\ gpc'[i] = "done") =>
                IF ret[i].err # NoErr
                THEN errs' = errs \o << [FeedName |-> feeds[i].Name, URL |-> feeds[i].URL,
                                         Err |-> ret[i].err] >>
                ELSE errs' = errs]_vars
    /\ [](Len(errs) = Cardinality({ i \in G : gpc[i] = "done" /\ ret[i].err # NoErr }))

\* the second input feed recorded its error first, so it is first in errs
C15_Witness ==
    /\ Returned
    /\ N = 2
    /\ Len(errs) = 2
    /\ feeds[1].URL # feeds[2].URL
    /\ errs[1].URL = feeds[2].URL
    /\ errs[2].URL = feeds[1].URL

(***************************************************************************)
(* C18.  ValidateFeed fetches the URL asking for one item and returns nil  *)
(* exactly when fetch and parse succeed, whether or not the feed has       *)
(* items; otherwise it returns the error of the fetch or the parse as it   *)
(* is.                                                                     *)
(***************************************************************************)
\* the handler called ValidateFeed during the last request
Validated == lastOp.op = "put" /\ lastOp.calls # << >> /\ lastOp.calls[1] = "ValidateFeed"

C18_ValidateFeed ==
    Validated =>
        LET underlying == ParseURLWithContext(lastOp.answer, lastOp.ctxErr).err
            fetched == FetchFeed(lastOp.ctxErr, lastOp.answer, 1)
        IN  /\ lastOp.verr = underlying
            /\ lastOp.verr = NoErr <=> (lastOp.ctxErr = NoErr /\ lastOp.answer.kind = "feed")
            /\ lastOp.verr = fetched.err
            /\ Len(fetched.posts) = IF lastOp.verr = NoErr /\ lastOp.answer.Items # << >>
                                    THEN 1 ELSE 0

\* a feed without items passed the validation and was stored
C18_Witness ==
    /\ Validated
    /\ lastOp.answer = DocEmpty
    /\ lastOp.verr = NoErr
    /\ lastOp.status = StatusCreated
    /\ HasURL(file.Feeds, "u/empty")

(***************************************************************************)
(* C19.  The handler of PUT /rss calls AddFeed only after ValidateFeed     *)
(* returned nil for the URL: when the validation fails the reply is 422,   *)
(* AddFeed is not called and the feeds file is as it was.                  *)
(***************************************************************************)
\* the URL of the last request does not validate
ValidationFails ==
    /\ lastOp.op = "put"
    /\ ReachesValidation(lastOp.r)
    /\ \/ lastOp.ctxErr # NoErr
       \/ lastOp.answer.kind # "feed"

C19_ValidateBeforePersist ==
    lastOp.op = "put" =>
        /\ ValidationFails =>
              /\ lastOp.status = StatusUnprocessableEntity
              /\ \A k \in DOMAIN lastOp.calls : lastOp.calls[k] # "AddFeed"
              /\ file = lastOp.before
        /\ (\E k \in DOMAIN lastOp.calls : lastOp.calls[k] = "AddFeed") =>
              /\ lastOp.calls = << "ValidateFeed", "AddFeed" >>
              /\ ~ValidationFails
        /\ file # lastOp.before =>
              lastOp.calls = << "ValidateFeed", "AddFeed" >>

\* a request for a URL that is no feed was rejected and the stored feeds kept
C19_Witness ==
    /\ ValidationFails
    /\ lastOp.r.url = "u/bad"
    /\ lastOp.answer = NotAFeed
    /\ lastOp.status = StatusUnprocessableEntity
    /\ Len(file.Feeds) = 2
    /\ file = lastOp.before

(***************************************************************************)
(* C20.  AddFeed with a feed whose URL equals, case-sensitively, the URL   *)
(* of a stored feed returns ErrDuplicateFeed and leaves the stored list    *)
(* as it was; otherwise it appends the feed behind the stored ones.  So    *)
(* no two stored feeds share a URL.                                        *)
(***************************************************************************)
\* AddFeed was called during the last operation
AddCalled == \E k \in DOMAIN lastOp.calls : lastOp.calls[k] = "AddFeed"

\* the feed given to AddFeed has the URL of a feed stored before the call
Duplicate == \E k \in DOMAIN lastOp.before.Feeds : lastOp.before.Feeds[k].URL = lastOp.feed.URL

\* AddFeed could read the feeds file and, where it wrote, write it
Readable == lastOp.io # "read fails" /\ lastOp.before.kind # "corrupt"

C20_UniqueURLs ==
    /\ \A j, k \in DOMAIN file.Feeds : file.Feeds[j].URL = file.Feeds[k].URL => j = k
    /\ AddCalled =>
          /\ (Duplicate /\ Readable) => (lastOp.err = ErrDuplicateFeed /\ file = lastOp.before)
          /\ lastOp.err = ErrDuplicateFeed => (Duplicate /\ file = lastOp.before)
          /\ (~Duplicate /\ Readable /\ lastOp.io = "ok") =>
                /\ lastOp.err = NoErr
                /\ file.kind = "yaml"
                /\ file.Feeds = Append(lastOp.before.Feeds, lastOp.feed)
          /\ lastOp.err = NoErr => file.Feeds = Append(lastOp.before.Feeds, lastOp.feed)

\* "u/a" and "U/A" are both stored, and a second feed at "U/A" was refused
C20_Witness ==
    /\ AddCalled
    /\ lastOp.feed.URL = "U/A"
    /\ lastOp.err = ErrDuplicateFeed
    /\ file = lastOp.before
    /\ HasURL(file.Feeds, "u/a")
    /\ HasURL(file.Feeds, "U/A")
    /\ \E k \in DOMAIN file.Feeds : file.Feeds[k].URL = "U/A" /\ file.Feeds[k].Name # lastOp.feed.Name

(***************************************************************************)
(* C21.  A PUT /rss request for a URL that is stored is answered with 409  *)
(* and leaves the stored list as it was.                                   *)
(***************************************************************************)
\* the last request was a well-formed PUT for a URL stored before it
PutOfStoredURL ==
    /\ lastOp.op = "put"
    /\ ReachesValidation(lastOp.r)
    /\ lastOp.before.kind = "yaml"
    /\ Duplicate

\* for every such request
C21_DuplicateAlways409 ==
    PutOfStoredURL => (lastOp.status = StatusConflict /\ file = lastOp.before)

\* for such a request whose URL validates and whose feeds file can be read;
\* one whose URL does not validate gets 422, one whose file cannot be read
\* gets 500, and the stored list is as it was in each case
C21_DuplicateConflict ==
    PutOfStoredURL =>
        /\ file = lastOp.before
        /\ ~ValidationFails /\ lastOp.io # "read fails" => lastOp.status = StatusConflict
        /\ ValidationFails => lastOp.status = StatusUnprocessableEntity
        /\ ~ValidationFails /\ lastOp.io = "read fails" =>
              lastOp.status = StatusInternalServerError
        /\ lastOp.status = StatusConflict => lastOp.err = ErrDuplicateFeed

\* a stored URL was put again under another name and refused with 409
C21_Witness ==
    /\ PutOfStoredURL
    /\ lastOp.status = StatusConflict
    /\ lastOp.r.url = "u/a"
    /\ \E k \in DOMAIN file.Feeds : file.Feeds[k].URL = "u/a" /\ file.Feeds[k].Name = "Q"
    /\ file = lastOp.before

(***************************************************************************)
(* C22.  The range filter of GET /rss keeps exactly the merged posts p     *)
(* with (from absent or p.publishedAt not before from) and (to absent or   *)
(* p.publishedAt not after to).                                            *)
(***************************************************************************)
\* the request was answered after FetchAllFeeds returned
Answered == get.pc = "replied" /\ get.status = StatusOK

\* the request bounds the window from below: by its from parameter, or by
\* the range word when it has neither from nor to
FromGiven == get.q.from # "" \/ get.q.to = ""

\* the request bounds the window from above: by its to parameter
ToGiven == get.q.to # ""

\* the posts of allPosts inside the request's window, in order
InWindow ==
    LET Inside(p) ==
            /\ ~FromGiven \/ ~Before(p.PublishedAt, get.from)
            /\ ~ToGiven \/ ~After(p.PublishedAt, get.to)
    IN  SelectSeq(allPosts, Inside)

C22_RangeFilter == Answered => get.body = InWindow

\* the filter is the window's for every request but one whose to parameter
\* is the zero time
FilterUnlessZeroTo == (Answered /\ ~(ToGiven /\ IsZero(get.to))) => get.body = InWindow

\* posts at both bounds kept, posts outside dropped
FilterAtBounds ==
    /\ Answered
    /\ get.q.from = "0001-01-02T00:00:00Z"
    /\ get.q.to = "0001-01-02T14:00:00+02:00"
    /\ Len(allPosts) = 6
    /\ Len(get.body) = 4

(***************************************************************************)
(* C23.  GET /rss sets X-Feed-Errors: all-feeds-failed exactly when the    *)
(* loaded feed list is not empty and there are as many FeedErrors as       *)
(* feeds; with or without the warning the reply is 200 with the posts.     *)
(***************************************************************************)
C23_AllFeedsFailedWarning ==
    get.pc = "replied" =>
        /\ get.warn = "all-feeds-failed" <=> (get.status = StatusOK /\ N > 0 /\ Len(errs) = N)
        /\ get.warn = "all-feeds-failed" <=>
              (get.status = StatusOK /\ N > 0 /\ \A i \in G : ret[i].err # NoErr)
        /\ get.warn \in {"", "all-feeds-failed"}
        /\ pc = "returned" =>
              /\ get.status = StatusOK
              /\ get.body = FilterPosts(allPosts, get.from, get.to)
        /\ get.status = StatusOK => pc = "returned"

\* both feeds failed: the warning, 200 and an empty array
C23_Witness ==
    /\ get.pc = "replied"
    /\ get.status = StatusOK
    /\ get.warn = "all-feeds-failed"
    /\ N = 2
    /\ Len(errs) = 2
    /\ get.body = << >>

(***************************************************************************)
(* C24.  Every append to allPosts and to errs is made by the goroutine     *)
(* that holds the mutex: at most one goroutine is in the bookkeeping       *)
(* section, and no outcome is lost or recorded twice.                      *)
(***************************************************************************)
\* the goroutines in the bookkeeping section
InSection == { i \in G : gpc[i] = "locked" }

\* the goroutines that have left the bookkeeping section
Recorded == { i \in G : gpc[i] = "done" }

C24_MutexGuardsAppends ==
    /\ Cardinality(InSection) <= 1
    /\ \A i \in G : gpc[i] = "locked" <=> mu = i
    /\ mu = 0 <=> InSection = {}
    /\ Len(errs) = Cardinality(Recorded \cap Failed)
    /\ Len(allPosts) = PostsOf(Recorded \cap Succeeded)
    /\ \A i \in Recorded \cap Failed :
          \E k \in DOMAIN errs : errs[k] = NewFeedError(feeds[i], ret[i].err)

\* one goroutine is in the section while the other, its fetch returned, waits
C24_Witness ==
    /\ N = 2
    /\ gpc[1] = "fetched"
    /\ gpc[2] = "locked"
    /\ mu = 2
    /\ ret[1].err = NoErr
    /\ ret[2].err = NoErr

(***************************************************************************)
(* C25.  No goroutine holds the mutex while its FetchFeed call is in       *)
(* progress: the mutex is taken after FetchFeed returned and held for the  *)
(* bookkeeping step only, so a feed that is still fetching never keeps     *)
(* another from recording its outcome.                                     *)
(***************************************************************************)
C25_NoLockAcrossFetch ==
    /\ \A i \in G : gpc[i] \in {"idle", "start", "fetching", "fetched", "done"} => mu # i
    /\ \A i \in G : mu = i => (Fetched(i) /\ ENABLED Record(i))
    /\ \A j \in G : gpc[j] = "fetched" =>
          \/ ENABLED Lock(j)
          \/ \E h \in G : h # j /\ gpc[h] = "locked" /\ ENABLED Record(h)

\* a feed recorded its outcome while a slow feed was still fetching
C25_Witness ==
    /\ N = 2
    /\ gpc[1] = "fetching"
    /\ Slow(feeds[1].URL)
    /\ fetchCtx[1] = NoErr
    /\ gpc[2] = "done"
    /\ Len(allPosts) > 0

(***************************************************************************)
(* C26.  FetchAllFeeds starts the fetch of every feed without waiting for  *)
(* a fetch it started before: the loop can always start the next           *)
(* goroutine and a started goroutine can always call FetchFeed, whatever   *)
(* the others are doing, so all fetches can be in flight at once.          *)
(***************************************************************************)
C26_StartWithoutWaiting ==
    /\ (pc = "loop" /\ next <= N) => ENABLED Spawn
    /\ \A i \in G : gpc[i] = "start" => ENABLED Begin(i)
    /\ \A i \in G : gpc[i] = "idle" <=> (pc = "loop" /\ i >= next)

\* all fetches of a list of MaxFeeds feeds are in flight
C26_Witness ==
    /\ N = MaxFeeds
    /\ \A i \in G : gpc[i] = "fetching" /\ fetchCtx[i] = NoErr

(***************************************************************************)
(* C28.  The merged result is a permutation of the concatenation of the    *)
(* post lists the successful fetches returned: merging and sorting drop    *)
(* no post and duplicate none.                                             *)
(***************************************************************************)
\* how often post p occurs in the sequence
Occurrences(posts, p) == Cardinality({ k \in DOMAIN posts : posts[k] = p })

\* how often post p occurs in the posts of the goroutines in S
RECURSIVE OccurrencesOf(_, _)
OccurrencesOf(S, p) ==
    IF S = {} THEN 0
    ELSE LET i == CHOOSE x \in S : TRUE
         IN  Occurrences(ret[i].posts, p) + OccurrencesOf(S \ {i}, p)

C28_MergeIsPermutation ==
    LET done == Recorded \cap Succeeded
        all == { allPosts[k] : k \in DOMAIN allPosts }
                  \cup UNION { { ret[i].posts[k] : k \in DOMAIN ret[i].posts } : i \in done }
    IN  /\ \A p \in all : Occurrences(allPosts, p) = OccurrencesOf(done, p)
        /\ Returned => Len(allPosts) = PostsOf(Succeeded)

\* the same feed twice in the list: each of its posts is twice in the result
C28_Witness ==
    /\ Returned
    /\ N = 2
    /\ feeds[1] = feeds[2]
    /\ Len(allPosts) = 6
    /\ \A k \in DOMAIN allPosts : Occurrences(allPosts, allPosts[k]) = 2

(***************************************************************************)
(* C27.  Within one call of FetchAllFeeds, FetchFeed is called exactly     *)
(* once for every entry of the feed list: not zero times, and not again    *)
(* after a failure or a timeout.                                           *)
(***************************************************************************)
\* how far a goroutine has come
Stage(at) ==
    CASE at = "idle" -> 0
      [] at = "start" -> 1
      [] at = "fetching" -> 2
      [] at = "fetched" -> 3
      [] at = "locked" -> 4
      [] at = "done" -> 5

\* goroutine i calls FetchFeed in this step
CallsFetchFeed(i) == gpc[i] # "fetching" /\ gpc'[i] = "fetching"

\* a goroutine calls FetchFeed only when it has just been started and never
\* goes back to an earlier stage, so it calls FetchFeed at most once; each
\* goroutine that is done has been through the call; when FetchAllFeeds
\* returns there is one goroutine per entry and each is done
C27_FetchedExactlyOnce ==
    /\ [][\A i \in G :
            /\ CallsFetchFeed(i) => gpc[i] = "start"
            /\ Stage(gpc'[i]) \in {Stage(gpc[i]), Stage(gpc[i]) + 1}
            /\ feeds' = feeds]_vars
    /\ [](Returned => (DOMAIN gpc = G /\ \A i \in G : gpc[i] = "done"))

\* a feed whose fetch timed out and a feed answered with 500, each fetched
\* once, have been recorded as errors
C27_Witness ==
    /\ Returned
    /\ N = 2
    /\ Len(errs) = 2
    /\ \E i \in G : ret[i].err = DeadlineExceeded
    /\ \E i \in G : ret[i].err = Http500.err

(***************************************************************************)
(* C29.  As every fetch returns in the end, at the latest when its         *)
(* timeout has passed, FetchAllFeeds returns in the end for every input    *)
(* and every interleaving: the mutex is released on the error path and on  *)
(* the success path, so no goroutine waits for it forever and wg.Wait()    *)
(* is released.                                                            *)
(***************************************************************************)
C29_EventuallyReturns ==
    /\ <>Returned
    /\ \A i \in 1..MaxFeeds : (mu = i) ~> (mu # i)

\* the call has returned with the mutex free after an error path, a success
\* path and a cancellation
C29_Witness ==
    /\ Returned
    /\ parentDone
    /\ mu = 0
    /\ wg = 0
    /\ N = 2
    /\ Len(errs) = 1
    /\ Len(allPosts) = 1

(***************************************************************************)
(* C30.  AddFeed calls running at the same time on one feeds file behave   *)
(* as if they ran one after the other: every feed whose call returned nil  *)
(* is stored afterwards, and no two stored feeds share a URL.              *)
(***************************************************************************)
\* every call has returned
AllAdded == adders # << >> /\ \A w \in DOMAIN adders : adders[w].pc = "done"

C30_ConcurrentAddFeed ==
    /\ AllAdded =>
          \A w \in DOMAIN adders :
              adders[w].err = NoErr =>
                  \E k \in DOMAIN file.Feeds : file.Feeds[k] = adders[w].feed
    /\ \A j, k \in DOMAIN file.Feeds : file.Feeds[j].URL = file.Feeds[k].URL => j = k

\* the part that holds under every interleaving: the stored URLs stay unique
RaceKeepsURLsUnique ==
    \A j, k \in DOMAIN file.Feeds : file.Feeds[j].URL = file.Feeds[k].URL => j = k

====
